---- MODULE Spec2Model ----
(***************************************************************************)
(* Model of the daily-challenge widget (src/widget.py, TransparentWindow). *)
(*                                                                         *)
(* The widget is a single-threaded Qt program: one handler runs at a time, *)
(* started by the event loop from the queue of pending events.  The status *)
(* provider (Ossapi) is called synchronously inside get_daily_streak, so a *)
(* handler that polls stays on the stack until the provider answers.       *)
(***************************************************************************)
EXTENDS Integers, Sequences, FiniteSets, TLC

VARIABLES
    osu_client_id,            \* self.osu_client_id
    osu_client_secret,        \* self.osu_client_secret
    osu_username,             \* self.osu_username
    use_alternative_template, \* self.use_alternative_template
    always_on_top,            \* self.always_on_top
    scale,                    \* self.scale
    x, y,                     \* window top-left, self.geometry().x()/y()
    width, height,            \* the window's fixed size (setFixedSize)
    animation,                \* self.animation: the running resize, with its end size
    webView,                  \* the render surface: template, streak, size, zoom
    settings_file,            \* content of widget_settings.json
    running,                  \* the process is alive (constructed, not exited)
    screens,                  \* QApplication.screens(), the primary screen first
    storage,                  \* the file system's condition when a file is written
    update_timer,             \* the QTimer that triggers the periodic poll
    submitted,                \* the latest text submitted in the scale field
    animations,               \* the QPropertyAnimation objects that are running
    oldPos,                   \* self.oldPos: the pointer position of the last mouse event
    held,                     \* the left mouse button is down
    last_event,               \* the handler that ran last
    ended,                    \* how the process ended: "none", "exit" or "error"
    pending,                  \* events posted to the Qt event loop, not yet handled
    handler,                  \* the handler on the stack (name "idle": event loop waits)
    requests,                 \* provider calls outstanding, innermost last
    sample                    \* the latest get_daily_streak call: inputs and outcome

vars == <<osu_client_id, osu_client_secret, osu_username, use_alternative_template,
          always_on_top, scale, x, y, width, height, animation, webView,
          settings_file, running, screens, storage, update_timer, submitted,
          animations, oldPos, held,
          last_event, ended, pending, handler, requests, sample>>

(* What the handlers of the poll leave alone. *)
windowVars == <<always_on_top, scale, x, y, width, height, animation, running,
                screens, storage, submitted, animations, oldPos, held, ended>>

(* The pointer state and the way the process ended. *)
pointerVars == <<oldPos, held, ended>>

(* What the handlers of the window leave alone. *)
pollVars == <<pending, handler, requests, sample>>

----------------------------------------------------------------------------
(* Bounds of the model *)

MaxPending == 1
MaxStreak == 1
MaxTime == 2
TicksPerDay == 2
ScaleMargin == 1
ScreenW == 160
ScreenH == 60
PointerStep == 3
MaxPointer == 2
NudgeReach == 2

(* Steps of the clock in one period of the update timer. *)
TimerTicks == 2
DragReach == 10

(* Program constants *)
base_width == 150
base_height == 57
MinScale == 100
MaxScale == 500
DefaultScale == 100
DefaultX == 100
DefaultY == 100

(* Texts a credential field can hold; "" is the empty field. *)
CredValues == {"", "p"}

(* Clock readings, in ticks since 2024-07-24T00:00:00Z (negative: a clock *)
(* set before the reference instant).                                     *)
Times == (0 - TicksPerDay)..MaxTime

Streaks == 0..MaxStreak

(* What the provider call can do: return a streak or raise. *)
Outcomes == [ok : {TRUE}, streak : Streaks, err : {"none"}]
            \cup [ok : {FALSE}, streak : {0}, err : {"network", "auth", "parsing"}]

----------------------------------------------------------------------------
(* Values of the settings file *)

(* A JSON value as json.load returns it: an int n, the float n + 0.5, the *)
(* string holding the digits of n, any other string, null, a list, or no  *)
(* value under the key.                                                   *)
JInt(n) == [t |-> "int", n |-> n]
JHalf(n) == [t |-> "float", n |-> n]
JDigits(n) == [t |-> "digits", n |-> n]
JText == [t |-> "text", n |-> 0]
JNull == [t |-> "null", n |-> 0]
JList == [t |-> "list", n |-> 0]
JInfinity == [t |-> "infinity", n |-> 0]
JAbsent == [t |-> "absent", n |-> 0]

(* Python's int(v): an int as it is, a float truncated towards zero, a *)
(* string of digits parsed; ValueError for another string,             *)
(* OverflowError for an infinite float, TypeError for null and for a   *)
(* list.                                                               *)
PyInt(v) ==
    CASE v.t = "int" -> [ok |-> TRUE, n |-> v.n, err |-> "none"]
      [] v.t = "float" -> [ok |-> TRUE, n |-> IF v.n >= 0 THEN v.n ELSE v.n + 1,
                           err |-> "none"]
      [] v.t = "digits" -> [ok |-> TRUE, n |-> v.n, err |-> "none"]
      [] v.t = "text" -> [ok |-> FALSE, n |-> 0, err |-> "ValueError"]
      [] v.t = "infinity" -> [ok |-> FALSE, n |-> 0, err |-> "OverflowError"]
      [] OTHER -> [ok |-> FALSE, n |-> 0, err |-> "TypeError"]

(* A settings file with every entry well-formed and at its default value, *)
(* as an earlier run of an unconfigured widget leaves it.                 *)
DefaultFile ==
    [kind |-> "object",
     saved |-> FALSE,
     position |-> [t |-> "dict", x |-> JInt(DefaultX), y |-> JInt(DefaultY)],
     scale |-> JInt(DefaultScale),
     use_alternative_template |-> FALSE,
     always_on_top |-> TRUE,
     osu_client_id |-> "",
     osu_client_secret |-> "",
     osu_username |-> ""]

(* No settings file. *)
MissingFile == [DefaultFile EXCEPT !.kind = "missing"]

(* A settings file whose JSON value is a list or a string, such as []. *)
ArrayFile == [DefaultFile EXCEPT !.kind = "array"]

(* A screen of the model's size with its top-left corner at (sx, sy). *)
Screen(sx, sy) == [x |-> sx, y |-> sy, w |-> ScreenW, h |-> ScreenH]

----------------------------------------------------------------------------
(* Double-precision arithmetic of int(base * (scale / 100)) *)

LimbBase == 65536

RECURSIVE Pow2(_)
Pow2(n) == IF n = 0 THEN 1 ELSE 2 * Pow2(n - 1)

(* Multi-word naturals: sequences of words below LimbBase, least first. *)
RECURSIVE BigMulSmall(_, _, _)
BigMulSmall(a, m, carry) ==
    IF a = <<>>
    THEN IF carry = 0
         THEN <<>>
         ELSE <<carry % LimbBase>> \o BigMulSmall(<<>>, m, carry \div LimbBase)
    ELSE LET t == Head(a) * m + carry
         IN <<t % LimbBase>> \o BigMulSmall(Tail(a), m, t \div LimbBase)

RECURSIVE BigZeros(_)
BigZeros(n) == IF n = 0 THEN <<>> ELSE <<0>> \o BigZeros(n - 1)

BigShiftLeft(a, bits) ==
    BigZeros(bits \div 16) \o BigMulSmall(a, Pow2(bits % 16), 0)

(* Division by a word d up to 2^15, from the most significant word down. *)
RECURSIVE BigDivSmall(_, _)
BigDivSmall(a, d) ==
    IF a = <<>>
    THEN [q |-> <<>>, r |-> 0]
    ELSE LET hi == BigDivSmall(Tail(a), d)
             t == hi.r * LimbBase + Head(a)
         IN [q |-> <<t \div d>> \o hi.q, r |-> t % d]

RECURSIVE BigAddSmall(_, _)
BigAddSmall(a, c) ==
    IF c = 0 THEN a
    ELSE IF a = <<>> THEN <<c>>
    ELSE LET t == Head(a) + c
         IN <<t % LimbBase>> \o BigAddSmall(Tail(a), t \div LimbBase)

RECURSIVE BigTrim(_)
BigTrim(a) ==
    IF a # <<>> /\ a[Len(a)] = 0 THEN BigTrim(SubSeq(a, 1, Len(a) - 1)) ELSE a

RECURSIVE WordBitLen(_)
WordBitLen(w) == IF w = 0 THEN 0 ELSE 1 + WordBitLen(w \div 2)

(* Bits of a multi-word natural without leading zero words. *)
TrimmedBitLen(t) ==
    IF t = <<>> THEN 0 ELSE 16 * (Len(t) - 1) + WordBitLen(t[Len(t)])

BigBitLen(a) == TrimmedBitLen(BigTrim(a))

WordsFrom(a, words) ==
    IF words >= Len(a) THEN <<>> ELSE SubSeq(a, words + 1, Len(a))

BigShiftRight(a, bits) ==
    BigDivSmall(WordsFrom(a, bits \div 16), Pow2(bits % 16)).q

BigIsOdd(a) == a # <<>> /\ Head(a) % 2 = 1

RECURSIVE BigToInt(_)
BigToInt(a) == IF a = <<>> THEN 0 ELSE Head(a) + LimbBase * BigToInt(Tail(a))

(* The quotient d.q moved to the nearest integer, ties to even, given the *)
(* remainder d.r and twice the remainder of a tie.                        *)
NearestEven(d, tie) ==
    IF 2 * d.r > tie \/ (2 * d.r = tie /\ BigIsOdd(d.q))
    THEN BigAddSmall(d.q, 1) ELSE d.q

(* a / 2^bits rounded to nearest, ties to even. *)
BigRoundShift(a, bits) ==
    IF bits = 0 THEN a ELSE NearestEven(BigDivSmall(a, Pow2(bits)), Pow2(bits))

(* The binary exponent e of s / 100: 2^e <= s / 100 < 2^(e + 1). *)
Exponent(s) ==
    CHOOSE c \in (0 - 7)..3 :
        100 * Pow2(c + 7) <= s * 128 /\ s * 128 < 100 * Pow2(c + 8)

(* The 53-bit significand m of the double s / 100 = m * 2^(-k). *)
Significand(s, k) == NearestEven(BigDivSmall(BigShiftLeft(<<s>>, k), 100), 100)

(* The product p * 2^(-k) rounded to 53 bits, dropping sh bits, and *)
(* truncated by int().                                              *)
Truncated(p, sh, k) ==
    BigToInt(BigTrim(BigShiftRight(BigRoundShift(p, sh), k - sh)))

ExcessBits(len) == IF len > 53 THEN len - 53 ELSE 0

RoundedProduct(p, k) == Truncated(p, ExcessBits(BigBitLen(p)), k)

ScaledAt(base, s, k) ==
    RoundedProduct(BigTrim(BigMulSmall(Significand(s, k), base, 0)), k)

(* int(base * (s / 100)) as Python evaluates it on doubles, for s in       *)
(* 1..1000: s / 100 is rounded to a 53-bit significand m * 2^(-k), the     *)
(* product base * m is rounded to 53 bits again, and int() truncates.      *)
ScaledInt(base, s) == ScaledAt(base, s, 52 - Exponent(s))

(* The size computed as round(base * scale / 100) instead. *)
computeSize_Rounded(s) ==
    <<(base_width * s + 50) \div 100, (base_height * s + 50) \div 100>>

(* int(base_width * (s / 100)), int(base_height * (s / 100)) *)
SizeOf(s) == <<ScaledInt(base_width, s), ScaledInt(base_height, s)>>

(* The sizes of every scale the program accepts, computed once. *)
SizeTable == [s \in MinScale..MaxScale |-> SizeOf(s)]

(* current_width, current_height of __init__ and new_width, new_height of *)
(* updateSize.                                                            *)
computeSize(s) == IF s \in DOMAIN SizeTable THEN SizeTable[s] ELSE SizeOf(s)

----------------------------------------------------------------------------
(* load_settings *)

(* The range test on the scale without its upper limit. *)
ScaleOutOfRange_NoUpperLimit(n) == n < MinScale

(* scale < 100 or scale > 500 *)
ScaleOutOfRange(n) == n < MinScale \/ n > MaxScale

(* What load_settings returns for the file: the loaded value itself when   *)
(* the file holds a JSON array (no dict); {} (empty) when the file is      *)
(* missing or an exception escapes (unparsable content, int() failing on a *)
(* position coordinate, or with an error other than ValueError and         *)
(* TypeError on the scale); else the stored record with an ill-formed      *)
(* position removed and an invalid scale replaced by 100.                  *)
load_settings(file) ==
    LET px == PyInt(file.position.x)
        py == PyInt(file.position.y)
        sc == PyInt(file.scale)
        empty == [empty |-> TRUE, is_dict |-> TRUE,
                  has_position |-> FALSE, x |-> 0, y |-> 0,
                  has_scale |-> FALSE, scale |-> 0,
                  use_alternative_template |-> FALSE, always_on_top |-> TRUE,
                  osu_client_id |-> "", osu_client_secret |-> "",
                  osu_username |-> ""]
    IN IF file.kind = "array" THEN [empty EXCEPT !.is_dict = FALSE]
       ELSE IF file.kind # "object" THEN empty
       ELSE IF file.position.t = "dict" /\ ~(px.ok /\ py.ok) THEN empty
       ELSE IF file.scale.t # "absent" /\ sc.err = "OverflowError" THEN empty
       ELSE [empty |-> FALSE,
             is_dict |-> TRUE,
             has_position |-> file.position.t = "dict",
             x |-> IF file.position.t = "dict" THEN px.n ELSE 0,
             y |-> IF file.position.t = "dict" THEN py.n ELSE 0,
             has_scale |-> file.scale.t # "absent",
             scale |-> IF file.scale.t = "absent" THEN 0
                       ELSE IF ~sc.ok THEN DefaultScale
                       ELSE IF ScaleOutOfRange(sc.n) THEN DefaultScale
                       ELSE sc.n,
             use_alternative_template |-> file.use_alternative_template,
             always_on_top |-> file.always_on_top,
             osu_client_id |-> file.osu_client_id,
             osu_client_secret |-> file.osu_client_secret,
             osu_username |-> file.osu_username]

----------------------------------------------------------------------------
(* __init__ *)

(* Integer division rounding towards zero, as QRect::center computes. *)
TruncDiv(a, b) == IF a >= 0 THEN a \div b ELSE 0 - ((0 - a) \div b)

(* The position test that checks only the top-left corner. *)
FitsScreen_TopLeftOnly(px, py, w, h, screen) ==
    /\ px >= screen.x
    /\ px <= screen.x + screen.w
    /\ py >= screen.y
    /\ py <= screen.y + screen.h

(* The test of the position loop: the window at (px, py) lies in the screen. *)
FitsScreen(px, py, w, h, screen) ==
    /\ px >= screen.x
    /\ px + w <= screen.x + screen.w
    /\ py >= screen.y
    /\ py + h <= screen.y + screen.h

(* The position __init__ moves the window to: the stored one when it fits *)
(* a screen, else the centre of the primary screen.                       *)
StartPosition(px, py, w, h, scr) ==
    IF \E i \in 1..Len(scr) : FitsScreen(px, py, w, h, scr[i])
    THEN [x |-> px, y |-> py]
    ELSE LET primary == scr[1]
             cx == TruncDiv(primary.x + (primary.x + primary.w - 1), 2)
             cy == TruncDiv(primary.y + (primary.y + primary.h - 1), 2)
         IN [x |-> cx - (w \div 2), y |-> cy - (h \div 2)]

NoAnimation == [running |-> FALSE, w |-> 0, h |-> 0, x |-> 0, y |-> 0]

NoSubmission == [t |-> "none", n |-> 0, before |-> 0, during |-> FALSE,
                 x |-> 0, y |-> 0]

(* The first page with the default template whatever the flag is. *)
initUI_AlwaysDefault(alt, size, sc) ==
    [template |-> FALSE, daily_streak |-> 0,
     w |-> size[1], h |-> size[2], zoom |-> sc]

(* initUI: the web view of the computed size showing the template the *)
(* flag selects, filled with daily_streak="0d".                       *)
initUI(alt, size, sc) ==
    [template |-> alt, daily_streak |-> 0,
     w |-> size[1], h |-> size[2], zoom |-> sc]

(* The fields __init__ sets from the settings file and the screens: the   *)
(* loaded scale and the size computed from it, the start position, the    *)
(* credentials and flags with their defaults, and the placeholder page of *)
(* initUI.                                                                *)
Constructed(file, scr) ==
    LET st == load_settings(file)
        sc == IF st.has_scale THEN st.scale ELSE DefaultScale
        size == computeSize(sc)
        start == StartPosition(IF st.has_position THEN st.x ELSE DefaultX,
                               IF st.has_position THEN st.y ELSE DefaultY,
                               size[1], size[2], scr)
    IN [scale |-> sc, width |-> size[1], height |-> size[2],
        x |-> start.x, y |-> start.y,
        always_on_top |-> st.always_on_top,
        osu_client_id |-> st.osu_client_id,
        osu_client_secret |-> st.osu_client_secret,
        osu_username |-> st.osu_username,
        use_alternative_template |-> st.use_alternative_template,
        webView |-> initUI(st.use_alternative_template, size, sc)]

----------------------------------------------------------------------------
(* get_daily_streak *)

(* timedelta(...).days: whole days, rounded towards minus infinity. *)
calculate_days_since_start(now) == now \div TicksPerDay

(* The guard with the username test left out. *)
MissingCredentials_IgnoringUsername(id, secret, username) ==
    id = "" \/ secret = ""

(* The guard of get_daily_streak: a missing credential skips the request. *)
MissingCredentials(id, secret, username) ==
    id = "" \/ secret = "" \/ username = ""

(* The comparison as "not behind" instead of "equal". *)
StreakNotBehind(now, streak_value) ==
    calculate_days_since_start(now) - streak_value <= 0

(* streak_difference == 0 selects the alternative template. *)
StreakIsCurrent(now, streak_value) ==
    calculate_days_since_start(now) - streak_value = 0

(* self.update_timer before __init__ has made it and after the process *)
(* has ended.                                                          *)
NoTimer == [active |-> FALSE, interval |-> 0, elapsed |-> 0]

(* self.update_timer.start(300000): the timer runs, a new period begins. *)
StartedTimer == [active |-> TRUE, interval |-> 300000, elapsed |-> 0]

(* The handler frame while the event loop waits for the next event. *)
Idle == [name |-> "idle", next |-> 0, cid |-> "", cs |-> "", un |-> "",
         template |-> FALSE]

(* No get_daily_streak call yet. *)
NoSample == [kind |-> "none", ret |-> 0, at |-> 0, complete |-> FALSE,
             prior |-> FALSE]

(* The fields a polling handler reads and writes, as one value. *)
Cur == [id |-> osu_client_id, secret |-> osu_client_secret,
        username |-> osu_username, alt |-> use_alternative_template,
        web |-> webView, file |-> settings_file, sample |-> sample,
        timer |-> update_timer, blocked |-> FALSE, next |-> 0]

(* The snapshot with the scale written as the text of a percentage, *)
(* such as "101%".                                                  *)
Snapshot_ScaleAsText(st, g) ==
    [kind |-> "object",
     saved |-> TRUE,
     position |-> [t |-> "dict", x |-> JInt(g.x), y |-> JInt(g.y)],
     scale |-> JText,
     use_alternative_template |-> st.alt,
     always_on_top |-> g.always_on_top,
     osu_client_id |-> st.id,
     osu_client_secret |-> st.secret,
     osu_username |-> st.username]

(* save_settings: the snapshot json.dump writes (position, scale, template, *)
(* always-on-top and the credentials).                                     *)
Snapshot(st, g) ==
    [kind |-> "object",
     saved |-> TRUE,
     position |-> [t |-> "dict", x |-> JInt(g.x), y |-> JInt(g.y)],
     scale |-> JInt(g.scale),
     use_alternative_template |-> st.alt,
     always_on_top |-> g.always_on_top,
     osu_client_id |-> st.id,
     osu_client_secret |-> st.secret,
     osu_username |-> st.username]

(* The window fields save_settings reads. *)
CurGeo == [x |-> x, y |-> y, scale |-> scale, always_on_top |-> always_on_top]

(* The file system's conditions: writes and renames succeed; os.replace  *)
(* raises (the settings file is held open by another program) while     *)
(* writes succeed; no space is left, so that a written file stays empty *)
(* or cut short and the write raises.                                   *)
StorageConditions == {"ok", "rename_fails", "full"}

(* A settings file that is empty or cut short: json.load rejects it. *)
PartialFile == [DefaultFile EXCEPT !.kind = "garbage"]

(* save_settings from the temporary file on: the snapshot is written to *)
(* widget_settings.json.tmp and renamed over the settings file; when    *)
(* either step raises, the settings file is opened for writing, which   *)
(* empties it, and the snapshot is dumped into it.                      *)
StoreSettings(old, new, cond) ==
    CASE cond = "ok" -> new
      [] cond = "rename_fails" -> new
      [] OTHER -> PartialFile

save_settings(st) ==
    [st EXCEPT !.file = StoreSettings(st.file, Snapshot(st, CurGeo), storage)]

(* get_daily_streak with a credential missing: no request, template reset, *)
(* '0d' returned.                                                          *)
SkipRequest(st) ==
    [st EXCEPT !.alt = FALSE,
               !.sample = [kind |-> "gated", ret |-> 0, at |-> 0,
                           complete |-> st.id # "" /\ st.secret # ""
                                         /\ st.username # "",
                           prior |-> st.alt]]

(* get_daily_streak sending the request: the call to Ossapi is outstanding. *)
SendRequest(st) ==
    [st EXCEPT !.blocked = TRUE,
               !.sample = [kind |-> "pending", ret |-> 0, at |-> 0,
                           complete |-> st.id # "" /\ st.secret # ""
                                         /\ st.username # "",
                           prior |-> st.alt]]

(* The except branch without its reset of the template flag. *)
ReceiveAnswer_KeepingTemplate(st, o, now) ==
    IF o.ok
    THEN [st EXCEPT !.alt = StreakIsCurrent(now, o.streak),
                    !.sample = [st.sample EXCEPT !.kind = "ok", !.ret = o.streak,
                                                 !.at = now]]
    ELSE [st EXCEPT !.sample = [st.sample EXCEPT !.kind = "error", !.ret = 0]]

(* get_daily_streak once the provider has answered o at clock reading now. *)
ReceiveAnswer(st, o, now) ==
    IF o.ok
    THEN [st EXCEPT !.alt = StreakIsCurrent(now, o.streak),
                    !.sample = [st.sample EXCEPT !.kind = "ok", !.ret = o.streak,
                                                 !.at = now]]
    ELSE [st EXCEPT !.alt = FALSE,
                    !.sample = [st.sample EXCEPT !.kind = "error", !.ret = 0]]

(* update_streak after get_daily_streak returned: the template is chosen *)
(* from the flag get_daily_streak left, and the page is set.             *)
RenderStreak(st) ==
    [st EXCEPT !.web = [st.web EXCEPT !.template = st.alt,
                                      !.daily_streak = st.sample.ret]]

(* update_streak starting the timer's period anew. *)
update_streak_RestartingTimer(st) ==
    LET restarted == [st EXCEPT !.timer = StartedTimer]
    IN IF MissingCredentials(st.id, st.secret, st.username)
       THEN RenderStreak(SkipRequest(restarted))
       ELSE SendRequest(restarted)

(* update_streak up to the provider call, or to its end when the request *)
(* is skipped.                                                           *)
update_streak(st) ==
    IF MissingCredentials(st.id, st.secret, st.username)
    THEN RenderStreak(SkipRequest(st))
    ELSE SendRequest(st)

----------------------------------------------------------------------------
(* update_osu_settings *)

(* The k-th of the three blocks of update_osu_settings (client id, client *)
(* secret, username): whether the two other stored fields are present,    *)
(* and the field set to the submitted text.                               *)
OthersPresent(st, k) ==
    CASE k = 1 -> ~(st.secret = "" \/ st.username = "")
      [] k = 2 -> ~(st.id = "" \/ st.username = "")
      [] OTHER -> ~(st.id = "" \/ st.secret = "")

SetField(st, k, f) ==
    CASE k = 1 -> [st EXCEPT !.id = f.cid]
      [] k = 2 -> [st EXCEPT !.secret = f.cs]
      [] OTHER -> [st EXCEPT !.username = f.un]

(* update_osu_settings from block k on, for the submitted texts of frame f: *)
(* runs to the next provider call (blocked, to resume at block next) or to  *)
(* the save that ends it.  All three texts are always submitted, so         *)
(* settings_changed is set and the save is reached.                         *)
RECURSIVE update_osu_settings(_, _, _)
update_osu_settings(st, k, f) ==
    IF k > 3
    THEN save_settings(st)
    ELSE LET set == SetField(st, k, f)
         IN IF ~OthersPresent(st, k)
            THEN update_osu_settings(set, k + 1, f)
            ELSE LET polled == update_streak(set)
                 IN IF polled.blocked
                    THEN [polled EXCEPT !.next = k + 1]
                    ELSE update_osu_settings(polled, k + 1, f)

----------------------------------------------------------------------------
(* The event loop and the handlers *)

(* A loop that also runs while a handler is blocked in the provider call. *)
LoopAlwaysReady == TRUE

(* The loop takes the next event only when no handler is on the stack: a *)
(* handler blocked in the provider call does not pump events.            *)
LoopReady == handler.name = "idle"

PollKinds == {"singleShot", "timeout", "F5", "manual"}

(* Writes a handler's result back to the object. *)
Install(st) ==
    /\ osu_client_id' = st.id
    /\ osu_client_secret' = st.secret
    /\ osu_username' = st.username
    /\ use_alternative_template' = st.alt
    /\ webView' = st.web
    /\ settings_file' = st.file
    /\ sample' = st.sample
    /\ update_timer' = st.timer

(* The frame of a handler blocked in the provider call, with the block *)
(* of update_osu_settings it resumes at.                               *)
Blocked(frame, next) == [frame EXCEPT !.next = next]

(* A handler that returns to the loop with its request still outstanding. *)
Suspend_Returning(st, frame) ==
    /\ requests' = IF st.blocked
                   THEN Append(requests, <<st.id, st.secret, st.username>>)
                   ELSE requests
    /\ handler' = Idle

(* A handler that sent a request stays on the stack with the request *)
(* outstanding; one that ran to its end leaves the loop idle.         *)
Suspend(st, frame) ==
    IF st.blocked
    THEN /\ requests' = Append(requests, <<st.id, st.secret, st.username>>)
         /\ handler' = Blocked(frame, st.next)
    ELSE /\ requests' = requests
         /\ handler' = Idle

(* The environment posts an event: the 300000 ms timer expires (a pending *)
(* timeout is not posted twice), F5 is pressed, Manual Update is clicked, *)
(* Return is pressed in a credential field, the template is toggled.  The *)
(* event records whether a provider call was outstanding when it arrived. *)
Post(kind) ==
    /\ Len(pending) < MaxPending
    /\ kind = "timeout" => \A i \in 1..Len(pending) : pending[i].kind # "timeout"
    /\ pending' = Append(pending, [kind |-> kind, during |-> requests # <<>>])
    /\ UNCHANGED <<osu_client_id, osu_client_secret, osu_username,
                   use_alternative_template, webView, settings_file, handler,
                   requests, sample, last_event, update_timer, windowVars>>

(* Time passes for the running timer.  At the end of the period the timer *)
(* emits timeout, which waits in the event queue for update_streak (a     *)
(* timeout still waiting is not posted again), and the next period        *)
(* begins.                                                                *)
TimerTick ==
    /\ running
    /\ update_timer.active
    /\ IF update_timer.elapsed + 1 < TimerTicks
       THEN /\ update_timer' = [update_timer EXCEPT !.elapsed = @ + 1]
            /\ UNCHANGED pending
       ELSE /\ Len(pending) < MaxPending
            /\ \A i \in 1..Len(pending) : pending[i].kind # "timeout"
            /\ update_timer' = [update_timer EXCEPT !.elapsed = 0]
            /\ pending' = Append(pending, [kind |-> "timeout",
                                           during |-> requests # <<>>])
    /\ UNCHANGED <<osu_client_id, osu_client_secret, osu_username,
                   use_alternative_template, webView, settings_file, handler,
                   requests, sample, last_event, windowVars>>

(* update_streak as a slot of the timer, of F5 and of the menu action. *)
HandleUpdateStreak ==
    /\ LoopReady
    /\ pending # <<>>
    /\ Head(pending).kind \in PollKinds
    /\ pending' = Tail(pending)
    /\ LET st == update_streak(Cur)
       IN /\ Install(st)
          /\ Suspend(st, [Idle EXCEPT !.name = "update_streak"])
    /\ last_event' = Head(pending).kind
    /\ UNCHANGED windowVars

(* updateOsuSettings: Return pressed with the three fields holding cid, cs, un. *)
HandleUpdateOsuSettings(cid, cs, un) ==
    /\ LoopReady
    /\ pending # <<>>
    /\ Head(pending).kind = "returnPressed"
    /\ pending' = Tail(pending)
    /\ LET frame == [Idle EXCEPT !.name = "update_osu_settings", !.cid = cid,
                                 !.cs = cs, !.un = un]
           st == update_osu_settings(Cur, 1, frame)
       IN /\ Install(st)
          /\ Suspend(st, frame)
    /\ last_event' = "update_osu_settings"
    /\ UNCHANGED windowVars

(* toggle_template without the save that ends it. *)
toggle_template_end_NotSaving(st, template) ==
    [st EXCEPT !.web = [template |-> template,
                        daily_streak |-> st.sample.ret,
                        w |-> computeSize(scale)[1],
                        h |-> computeSize(scale)[2],
                        zoom |-> scale]]

(* toggle_template: the flag is flipped and the template chosen, then *)
(* get_daily_streak is called.                                        *)
toggle_template_end(st, template) ==
    save_settings([st EXCEPT !.web = [template |-> template,
                                      daily_streak |-> st.sample.ret,
                                      w |-> computeSize(scale)[1],
                                      h |-> computeSize(scale)[2],
                                      zoom |-> scale]])

HandleToggleTemplate ==
    /\ LoopReady
    /\ pending # <<>>
    /\ Head(pending).kind = "toggle"
    /\ pending' = Tail(pending)
    /\ LET flipped == [Cur EXCEPT !.alt = ~use_alternative_template]
           frame == [Idle EXCEPT !.name = "toggle_template",
                                 !.template = flipped.alt]
           st == IF MissingCredentials(flipped.id, flipped.secret, flipped.username)
                 THEN toggle_template_end(SkipRequest(flipped), flipped.alt)
                 ELSE SendRequest(flipped)
       IN /\ Install(st)
          /\ Suspend(st, frame)
    /\ last_event' = "toggle_template"
    /\ UNCHANGED windowVars

(* The provider answers the outstanding request with o, the clock reading *)
(* now; the blocked handler runs on to its next request or to its end.    *)
ProviderReturn(o, now) ==
    /\ requests # <<>>
    /\ ~o.ok => now = 0      \* the clock is read only after a successful call
    /\ LET got == ReceiveAnswer(Cur, o, now)
           st == CASE handler.name = "update_streak" -> RenderStreak(got)
                   [] handler.name = "toggle_template" ->
                          toggle_template_end(got, handler.template)
                   [] OTHER ->
                          update_osu_settings(RenderStreak(got), handler.next, handler)
       IN /\ Install(st)
          /\ IF st.blocked
             THEN /\ requests' = Append(SubSeq(requests, 1, Len(requests) - 1),
                                        <<st.id, st.secret, st.username>>)
                  /\ handler' = Blocked(handler, st.next)
             ELSE /\ requests' = SubSeq(requests, 1, Len(requests) - 1)
                  /\ handler' = Idle
    /\ last_event' = IF handler.name = "update_streak" THEN last_event
                     ELSE handler.name
    /\ UNCHANGED <<windowVars, pending>>

(* The widget once __init__ has run on a settings file that holds any  *)
(* credentials and template flag: the size and position __init__ sets, *)
(* the placeholder page, and the initial poll posted by                *)
(* QTimer.singleShot.                                                  *)
InitPoll ==
    /\ osu_client_id \in CredValues
    /\ osu_client_secret \in CredValues
    /\ osu_username \in CredValues
    /\ use_alternative_template \in BOOLEAN
    /\ screens = <<Screen(0, 0)>>
    /\ storage = "ok"
    /\ update_timer = StartedTimer
    /\ settings_file = [DefaultFile EXCEPT !.osu_client_id = osu_client_id,
                                           !.osu_client_secret = osu_client_secret,
                                           !.osu_username = osu_username,
                                           !.use_alternative_template =
                                               use_alternative_template]
    /\ LET made == Constructed(settings_file, screens)
       IN /\ always_on_top = made.always_on_top
          /\ scale = made.scale
          /\ x = made.x
          /\ y = made.y
          /\ width = made.width
          /\ height = made.height
          /\ webView = made.webView
    /\ animation = NoAnimation
    /\ running = TRUE
    /\ submitted = NoSubmission
    /\ animations = <<>>
    /\ oldPos = [x |-> x, y |-> y]
    /\ held = FALSE
    /\ last_event = "none"
    /\ ended = "none"
    /\ pending = <<[kind |-> "singleShot", during |-> FALSE]>>
    /\ handler = Idle
    /\ requests = <<>>
    /\ sample = NoSample

NextPoll ==
    \/ \E kind \in {"timeout", "F5", "manual", "returnPressed", "toggle"} : Post(kind)
    \/ HandleUpdateStreak
    \/ \E cid \in CredValues, cs \in CredValues, un \in CredValues :
           HandleUpdateOsuSettings(cid, cs, un)
    \/ HandleToggleTemplate
    \/ \E o \in Outcomes, now \in Times : ProviderReturn(o, now)

SpecPoll == InitPoll /\ [][NextPoll]_vars

----------------------------------------------------------------------------
(* The window: start, scale change, exit *)

(* The program starts: __init__ runs on the settings file and the screens. *)
(* When load_settings returns a value that is no dict, self.settings.get   *)
(* raises AttributeError and the process ends before the window exists.    *)
Launch ==
    /\ ~running
    /\ IF ~load_settings(settings_file).is_dict
       THEN /\ ended' = "error"
            /\ UNCHANGED <<osu_client_id, osu_client_secret, osu_username,
                           use_alternative_template, always_on_top, scale, x, y,
                           width, height, animation, webView, running, submitted,
                           animations, oldPos, held, last_event, update_timer,
                           pollVars>>
       ELSE /\ running' = TRUE
            /\ update_timer' = StartedTimer
            /\ ended' = "none"
            /\ LET made == Constructed(settings_file, screens)
               IN /\ scale' = made.scale
                  /\ width' = made.width
                  /\ height' = made.height
                  /\ x' = made.x
                  /\ y' = made.y
                  /\ oldPos' = [x |-> made.x, y |-> made.y]
                  /\ always_on_top' = made.always_on_top
                  /\ osu_client_id' = made.osu_client_id
                  /\ osu_client_secret' = made.osu_client_secret
                  /\ osu_username' = made.osu_username
                  /\ use_alternative_template' = made.use_alternative_template
                  /\ webView' = made.webView
            /\ animation' = NoAnimation
            /\ animations' = <<>>
            /\ submitted' = NoSubmission
            /\ held' = FALSE
            /\ last_event' = "none"
            /\ pending' = <<[kind |-> "singleShot", during |-> FALSE]>>
            /\ handler' = Idle
            /\ requests' = <<>>
            /\ sample' = NoSample
    /\ UNCHANGED <<settings_file, screens, storage>>

(* The clamp without its upper limit. *)
ClampScale_NoUpperLimit(value) == IF value < MinScale THEN MinScale ELSE value

(* min(500, max(100, value)) *)
ClampScale(value) ==
    LET low == IF value > MinScale THEN value ELSE MinScale
    IN IF low < MaxScale THEN low ELSE MaxScale

(* updateSize without the stop of the running animation. *)
StopAnimation_NotStopping(objs, anim) == objs

(* updateSize: self.animation.stop() when it is running; a stopped *)
(* animation emits no finished signal.                             *)
StopAnimation(objs, anim) ==
    IF anim.running THEN SelectSeq(objs, LAMBDA a : a # anim) ELSE objs

(* The end geometry anchored at the window's centre instead. *)
EndGeometry_KeepingCentre(px, py, w, h, size) ==
    [running |-> TRUE, w |-> size[1], h |-> size[2],
     x |-> px - ((size[1] - w) \div 2), y |-> py - ((size[2] - h) \div 2)]

(* new_geometry of updateSize: the new size at the current top-left corner. *)
EndGeometry(px, py, w, h, size) ==
    [running |-> TRUE, w |-> size[1], h |-> size[2], x |-> px, y |-> py]

(* updateScale: Return pressed in the scale field holding text.  A text    *)
(* that int() accepts is clamped and passed to setScale, which stores and  *)
(* saves the scale and calls updateSize: a running animation is stopped, a *)
(* new one started towards the new size, the page resized and zoomed at    *)
(* once, and the window moved back to its position.  Another text leaves   *)
(* everything as it is.                                                    *)
updateScale(text) ==
    /\ running
    /\ LoopReady
    /\ submitted' = [t |-> text.t, n |-> text.n, before |-> scale,
                     during |-> animation.running,
                     x |-> IF text.t = "int" THEN x ELSE submitted.x,
                     y |-> IF text.t = "int" THEN y ELSE submitted.y]
    /\ last_event' = "updateScale"
    /\ IF text.t = "int"
       THEN LET value == ClampScale(text.n)
                size == computeSize(value)
                anim == EndGeometry(x, y, width, height, size)
            IN /\ scale' = value
               /\ settings_file' = StoreSettings(settings_file,
                                       Snapshot(Cur, [CurGeo EXCEPT !.scale = value]),
                                       storage)
               /\ animation' = anim
               /\ animations' = Append(StopAnimation(animations, animation), anim)
               /\ webView' = [webView EXCEPT !.w = size[1], !.h = size[2],
                                             !.zoom = value]
       ELSE UNCHANGED <<scale, settings_file, animation, animations, webView>>
    /\ UNCHANGED <<osu_client_id, osu_client_secret, osu_username,
                   use_alternative_template, always_on_top, x, y, width, height,
                   running, screens, storage, update_timer, pointerVars, pollVars>>

(* A running animation sets the geometry property to its current value: *)
(* the top-left corner of its start and end rectangles.                 *)
updateCurrentValue ==
    /\ running
    /\ LoopReady
    /\ \E i \in 1..Len(animations) :
          /\ x' = animations[i].x
          /\ y' = animations[i].y
    /\ last_event' = "frame"
    /\ UNCHANGED <<osu_client_id, osu_client_secret, osu_username,
                   use_alternative_template, always_on_top, scale, width, height,
                   animation, animations, webView, settings_file, running, screens,
                   storage, update_timer,
                   submitted, pointerVars, pollVars>>

(* onAnimationFinished without its save. *)
FinishedSave_NotSaving(px, py) == settings_file

(* The save that ends onAnimationFinished: the position entry is set to *)
(* the geometry's top-left corner and the settings are written.         *)
FinishedSave(px, py) ==
    StoreSettings(settings_file, Snapshot(Cur, [CurGeo EXCEPT !.x = px, !.y = py]),
                  storage)

(* A running animation reaches its end: the geometry is its end value, and *)
(* onAnimationFinished makes the end size the fixed size, drops            *)
(* self.animation and saves the settings.  processEvents finds no event    *)
(* waiting.                                                                *)
onAnimationFinished ==
    /\ running
    /\ LoopReady
    /\ \E i \in 1..Len(animations) :
          /\ x' = animations[i].x
          /\ y' = animations[i].y
          /\ width' = animations[i].w
          /\ height' = animations[i].h
          /\ animations' = SubSeq(animations, 1, i - 1)
                               \o SubSeq(animations, i + 1, Len(animations))
          /\ settings_file' = FinishedSave(animations[i].x, animations[i].y)
    /\ animation' = NoAnimation
    /\ last_event' = "finished"
    /\ UNCHANGED <<osu_client_id, osu_client_secret, osu_username,
                   use_alternative_template, always_on_top, scale, webView,
                   running, screens, storage, update_timer, submitted, pointerVars, pollVars>>

(* closeApp without its save. *)
ExitSave_Skipped == settings_file

(* The save closeApp starts with: the position entry is set from the *)
(* geometry and the settings are written.                            *)
ExitSave == StoreSettings(settings_file, Snapshot(Cur, CurGeo), storage)

(* closeApp, from the menu's Exit, Alt+F4 or closeEvent: the settings are *)
(* saved with the current position, then the page is cleared and the     *)
(* process ends; what it held in memory is gone.  processEvents finds no *)
(* event waiting.                                                        *)
closeApp ==
    /\ running
    /\ LoopReady
    /\ settings_file' = ExitSave
    /\ running' = FALSE
    /\ osu_client_id' = ""
    /\ osu_client_secret' = ""
    /\ osu_username' = ""
    /\ use_alternative_template' = FALSE
    /\ always_on_top' = TRUE
    /\ scale' = DefaultScale
    /\ x' = DefaultX
    /\ y' = DefaultY
    /\ width' = base_width
    /\ height' = base_height
    /\ animation' = NoAnimation
    /\ webView' = [template |-> FALSE, daily_streak |-> 0, w |-> base_width,
                   h |-> base_height, zoom |-> DefaultScale]
    /\ submitted' = NoSubmission
    /\ animations' = <<>>
    /\ oldPos' = [x |-> DefaultX, y |-> DefaultY]
    /\ held' = FALSE
    /\ last_event' = "none"
    /\ ended' = "exit"
    /\ pending' = <<>>
    /\ handler' = Idle
    /\ requests' = <<>>
    /\ sample' = NoSample
    /\ update_timer' = NoTimer
    /\ UNCHANGED <<screens, storage>>

(* While the program is not running the file is replaced by one whose *)
(* scale entry is v.                                                  *)
EditScale(v) ==
    /\ ~running
    /\ settings_file' = [(IF settings_file.kind = "object" THEN settings_file
                          ELSE DefaultFile)
                         EXCEPT !.scale = v, !.saved = FALSE]
    /\ UNCHANGED <<osu_client_id, osu_client_secret, osu_username,
                   use_alternative_template, always_on_top, scale, x, y, width,
                   height, animation, webView, running, screens, storage, update_timer, submitted,
                   animations, last_event, pointerVars, pollVars>>

(* The scales tried: around both limits and two values between. *)
ScaleInts ==
    ((MinScale - ScaleMargin)..(MinScale + ScaleMargin))
    \cup {114, 250}
    \cup ((MaxScale - ScaleMargin)..(MaxScale + ScaleMargin))

(* Scale entries a settings file can hold. *)
ScaleFileValues ==
    {JInt(n) : n \in ScaleInts \cup {0}}
    \cup {JHalf(MinScale - 1), JHalf(MaxScale), JDigits(250), JDigits(MaxScale + 1),
          JText, JNull, JList, JInfinity, JAbsent}

(* Texts of the scale field: the digits of an integer, or another text. *)
ScaleTexts ==
    [t : {"int"}, n : ScaleInts \cup {0 - 5}] \cup {[t |-> "other", n |-> 0]}

(* The memory of a process that has not started. *)
NotStarted ==
    /\ running = FALSE
    /\ osu_client_id = ""
    /\ osu_client_secret = ""
    /\ osu_username = ""
    /\ use_alternative_template = FALSE
    /\ always_on_top = TRUE
    /\ scale = DefaultScale
    /\ x = DefaultX
    /\ y = DefaultY
    /\ width = base_width
    /\ height = base_height
    /\ animation = NoAnimation
    /\ webView = [template |-> FALSE, daily_streak |-> 0, w |-> base_width,
                  h |-> base_height, zoom |-> DefaultScale]
    /\ submitted = NoSubmission
    /\ animations = <<>>
    /\ oldPos = [x |-> DefaultX, y |-> DefaultY]
    /\ held = FALSE
    /\ last_event = "none"
    /\ ended = "none"
    /\ pending = <<>>
    /\ handler = Idle
    /\ requests = <<>>
    /\ sample = NoSample
    /\ update_timer = NoTimer

InitScale ==
    /\ NotStarted
    /\ screens = <<Screen(0, 0)>>
    /\ storage = "ok"
    /\ \/ settings_file = MissingFile
       \/ settings_file = [DefaultFile EXCEPT !.kind = "garbage"]
       \/ \E v \in ScaleFileValues : settings_file = [DefaultFile EXCEPT !.scale = v]

NextScale ==
    \/ Launch
    \/ \E text \in ScaleTexts : updateScale(text)
    \/ onAnimationFinished
    \/ closeApp
    \/ \E v \in ScaleFileValues : EditScale(v)

SpecScale == InitScale /\ [][NextScale]_vars

----------------------------------------------------------------------------
(* The start position *)

(* Screen layouts: one screen; a second screen to the right of the primary *)
(* one; a second screen to its left.                                       *)
Layouts ==
    {<<Screen(0, 0)>>,
     <<Screen(0, 0), Screen(ScreenW, 0)>>,
     <<Screen(0, 0), Screen(0 - ScreenW, 0)>>}

PosXs ==
    {0 - ScreenW, 0 - 1, 0, 1,
     ScreenW - base_width - 1, ScreenW - base_width, ScreenW - base_width + 1,
     ScreenW - 1, ScreenW, ScreenW + 1,
     2 * ScreenW - base_width - 1, 2 * ScreenW - base_width,
     2 * ScreenW - base_width + 1, 3 * ScreenW}

PosYs ==
    {0 - 1, 0, 1,
     ScreenH - base_height - 1, ScreenH - base_height, ScreenH - base_height + 1,
     ScreenH, 3 * ScreenH}

(* Position entries a settings file can hold: a dict of two integers, a  *)
(* dict with a coordinate int() rejects, a dict without x or y, a value  *)
(* that is no dict, or no entry.                                         *)
PositionFileValues ==
    [t : {"dict"}, x : {JInt(n) : n \in PosXs}, y : {JInt(n) : n \in PosYs}]
    \cup {[t |-> "dict", x |-> JText, y |-> JInt(0)],
          [t |-> "dict", x |-> JHalf(0), y |-> JHalf(0)],
          [t |-> "nokeys", x |-> JAbsent, y |-> JInt(0)],
          [t |-> "nodict", x |-> JAbsent, y |-> JAbsent],
          [t |-> "absent", x |-> JAbsent, y |-> JAbsent]}

InitStartup ==
    /\ NotStarted
    /\ screens \in Layouts
    /\ storage = "ok"
    /\ \/ settings_file = MissingFile
       \/ settings_file = ArrayFile
       \/ \E p \in PositionFileValues, n \in {MinScale, MinScale + ScaleMargin} :
             settings_file = [DefaultFile EXCEPT !.position = p, !.scale = JInt(n)]

NextStartup ==
    \/ Launch
    \/ closeApp

SpecStartup == InitStartup /\ [][NextStartup]_vars

----------------------------------------------------------------------------
(* Dragging and nudging the window *)

snap_distance == 10
arrow_step == 2
SlowLimit == 5

Abs(n) == IF n < 0 THEN 0 - n ELSE n

(* QRect.contains(point) *)
ScreenContains(screen, px, py) ==
    /\ screen.x <= px /\ px <= screen.x + screen.w - 1
    /\ screen.y <= py /\ py <= screen.y + screen.h - 1

(* current_screen of mouseMoveEvent: the first screen that contains the *)
(* pointer, else the primary screen.                                    *)
ActiveScreen(scr, px, py) ==
    IF \E i \in 1..Len(scr) : ScreenContains(scr[i], px, py)
    THEN scr[CHOOSE i \in 1..Len(scr) :
                 /\ ScreenContains(scr[i], px, py)
                 /\ \A j \in 1..(i - 1) : ~ScreenContains(scr[j], px, py)]
    ELSE scr[1]

(* The far edge tried before the near one. *)
SnapAxis_FarEdgeFirst(c, lo, extent, size) ==
    IF Abs((lo + extent) - (c + size)) < snap_distance THEN lo + extent - size
    ELSE IF Abs(c - lo) < snap_distance THEN lo
    ELSE c

(* One axis of the snap: the near edge is tried first, the far edge only *)
(* when the near edge is not within snap_distance.                       *)
SnapAxis(c, lo, extent, size) ==
    IF Abs(c - lo) < snap_distance THEN lo
    ELSE IF Abs((lo + extent) - (c + size)) < snap_distance THEN lo + extent - size
    ELSE c

(* The snap of mouseMoveEvent applied to the candidate position (cx, cy). *)
applySnap(cx, cy, screen, w, h) ==
    [x |-> SnapAxis(cx, screen.x, screen.w, w),
     y |-> SnapAxis(cy, screen.y, screen.h, h)]

(* The slow test taken on either axis instead of on both. *)
SlowStep_EitherAxis(dx, dy) == Abs(dx) < SlowLimit \/ Abs(dy) < SlowLimit

(* abs(delta.x()) < 5 and abs(delta.y()) < 5 *)
SlowStep(dx, dy) == Abs(dx) < SlowLimit /\ Abs(dy) < SlowLimit

(* The positions the model lets the window reach: those within DragReach *)
(* of the top-left corner of a screen.                                   *)
InReach(px, py) ==
    \E i \in 1..Len(screens) :
        /\ Abs(px - screens[i].x) <= DragReach
        /\ Abs(py - screens[i].y) <= DragReach

(* mousePressEvent with the left button at the pointer position (px, py). *)
mousePressEvent(px, py) ==
    /\ running
    /\ LoopReady
    /\ oldPos' = [x |-> px, y |-> py]
    /\ held' = TRUE
    /\ last_event' = "press"
    /\ UNCHANGED <<osu_client_id, osu_client_secret, osu_username,
                   use_alternative_template, always_on_top, scale, x, y, width,
                   height, animation, animations, webView, settings_file, running,
                   screens, storage, update_timer, submitted, ended, pollVars>>

(* mouseMoveEvent with the button down and the pointer at (px, py): the   *)
(* window moves by the pointer's displacement, snapped on a slow step,    *)
(* and the settings are saved on a slow step only.                        *)
mouseMoveEvent(px, py) ==
    /\ running
    /\ LoopReady
    /\ held
    /\ LET dx == px - oldPos.x
           dy == py - oldPos.y
           new_pos == IF SlowStep(dx, dy)
                      THEN applySnap(x + dx, y + dy, ActiveScreen(screens, px, py),
                                     width, height)
                      ELSE [x |-> x + dx, y |-> y + dy]
       IN /\ InReach(new_pos.x, new_pos.y)
          /\ x' = new_pos.x
          /\ y' = new_pos.y
          /\ settings_file' = IF SlowStep(dx, dy)
                              THEN StoreSettings(settings_file,
                                       Snapshot(Cur, [CurGeo EXCEPT !.x = new_pos.x,
                                                                    !.y = new_pos.y]),
                                       storage)
                              ELSE settings_file
    /\ oldPos' = [x |-> px, y |-> py]
    /\ last_event' = (IF SlowStep(px - oldPos.x, py - oldPos.y)
                      THEN "move" ELSE "flick")
    /\ UNCHANGED <<osu_client_id, osu_client_secret, osu_username,
                   use_alternative_template, always_on_top, scale, width, height,
                   animation, animations, webView, running, screens, storage, update_timer, submitted,
                   held, ended, pollVars>>

(* The arrow keys. *)
ArrowKeys == {"Left", "Right", "Up", "Down"}

(* The move kept on the primary screen's top-left quadrant. *)
NudgeTarget_Clamped(px, py, key) ==
    CASE key = "Left" -> [x |-> IF px - arrow_step < 0 THEN 0 ELSE px - arrow_step,
                          y |-> py]
      [] key = "Right" -> [x |-> px + arrow_step, y |-> py]
      [] key = "Up" -> [x |-> px,
                        y |-> IF py - arrow_step < 0 THEN 0 ELSE py - arrow_step]
      [] OTHER -> [x |-> px, y |-> py + arrow_step]

(* The position keyPressEvent moves the window at (px, py) to. *)
NudgeTarget(px, py, key) ==
    CASE key = "Left" -> [x |-> px - arrow_step, y |-> py]
      [] key = "Right" -> [x |-> px + arrow_step, y |-> py]
      [] key = "Up" -> [x |-> px, y |-> py - arrow_step]
      [] OTHER -> [x |-> px, y |-> py + arrow_step]

(* keyPressEvent with an arrow key: the window moves by arrow_step and *)
(* the settings are saved.  processEvents finds no event waiting.      *)
keyPressEvent(key) ==
    /\ running
    /\ LoopReady
    /\ LET to == NudgeTarget(x, y, key)
       IN /\ Abs(to.x - oldPos.x) <= NudgeReach
          /\ Abs(to.y - oldPos.y) <= NudgeReach
          /\ x' = to.x
          /\ y' = to.y
          /\ settings_file' = StoreSettings(settings_file,
                                  Snapshot(Cur, [CurGeo EXCEPT !.x = to.x, !.y = to.y]),
                                  storage)
    /\ last_event' = key
    /\ UNCHANGED <<osu_client_id, osu_client_secret, osu_username,
                   use_alternative_template, always_on_top, scale, width, height,
                   animation, animations, webView, running, screens, storage, update_timer,
                   submitted, pointerVars, pollVars>>

(* toggle_always_on_top: the flag is flipped, the window shown again at *)
(* its position, the settings saved.                                    *)
toggle_always_on_top ==
    /\ running
    /\ LoopReady
    /\ always_on_top' = ~always_on_top
    /\ settings_file' = StoreSettings(settings_file,
                            Snapshot(Cur, [CurGeo EXCEPT !.always_on_top = ~always_on_top]),
                            storage)
    /\ last_event' = "toggle_always_on_top"
    /\ UNCHANGED <<osu_client_id, osu_client_secret, osu_username,
                   use_alternative_template, scale, x, y, width, height, animation,
                   animations, webView, running, screens, storage, update_timer,
                   submitted, pointerVars, pollVars>>

(* Pointer positions: near the primary screen's top-left corner, and one *)
(* column on the second screen.                                          *)
PointerXs == {0, 2 * PointerStep, ScreenW + PointerStep}

PointerYs == {k * PointerStep : k \in 0..MaxPointer}

(* The widget once __init__ has run on the default settings file with a *)
(* second screen to the right of the primary one.                       *)
InitMove ==
    /\ screens = <<Screen(0, 0), Screen(ScreenW, 0)>>
    /\ storage = "ok"
    /\ update_timer = StartedTimer
    /\ settings_file = DefaultFile
    /\ LET made == Constructed(settings_file, screens)
       IN /\ always_on_top = made.always_on_top
          /\ scale = made.scale
          /\ x = made.x
          /\ y = made.y
          /\ width = made.width
          /\ height = made.height
          /\ webView = made.webView
          /\ osu_client_id = made.osu_client_id
          /\ osu_client_secret = made.osu_client_secret
          /\ osu_username = made.osu_username
          /\ use_alternative_template = made.use_alternative_template
    /\ animation = NoAnimation
    /\ animations = <<>>
    /\ running = TRUE
    /\ submitted = NoSubmission
    /\ oldPos = [x |-> x, y |-> y]
    /\ held = FALSE
    /\ last_event = "none"
    /\ ended = "none"
    /\ pending = <<[kind |-> "singleShot", during |-> FALSE]>>
    /\ handler = Idle
    /\ requests = <<>>
    /\ sample = NoSample

NextMove ==
    \/ \E px \in PointerXs, py \in PointerYs : mousePressEvent(px, py)
    \/ \E px \in PointerXs, py \in PointerYs : mouseMoveEvent(px, py)

SpecMove == InitMove /\ [][NextMove]_vars

----------------------------------------------------------------------------
(* Scale changes while the window is on screen *)

(* Texts submitted in the scale field while the widget runs. *)
ResizeTexts ==
    [t : {"int"}, n : {MinScale, MinScale + ScaleMargin, 114}]
    \cup {[t |-> "other", n |-> 0]}

(* The widget once __init__ has run on the default settings file. *)
InitResize ==
    /\ screens = <<Screen(0, 0)>>
    /\ storage = "ok"
    /\ update_timer = StartedTimer
    /\ settings_file = DefaultFile
    /\ LET made == Constructed(settings_file, screens)
       IN /\ always_on_top = made.always_on_top
          /\ scale = made.scale
          /\ x = made.x
          /\ y = made.y
          /\ width = made.width
          /\ height = made.height
          /\ webView = made.webView
          /\ osu_client_id = made.osu_client_id
          /\ osu_client_secret = made.osu_client_secret
          /\ osu_username = made.osu_username
          /\ use_alternative_template = made.use_alternative_template
    /\ animation = NoAnimation
    /\ animations = <<>>
    /\ running = TRUE
    /\ submitted = NoSubmission
    /\ oldPos = [x |-> x, y |-> y]
    /\ held = FALSE
    /\ last_event = "none"
    /\ ended = "none"
    /\ pending = <<[kind |-> "singleShot", during |-> FALSE]>>
    /\ handler = Idle
    /\ requests = <<>>
    /\ sample = NoSample

NextResize ==
    \/ \E text \in ResizeTexts : updateScale(text)
    \/ updateCurrentValue
    \/ onAnimationFinished
    \/ \E key \in ArrowKeys : keyPressEvent(key)

SpecResize == InitResize /\ [][NextResize]_vars

(* A running animation reaches its end 100 ms after it started unless it *)
(* is stopped first.                                                     *)
SpecResizeFair == SpecResize /\ WF_vars(onAnimationFinished)

(* C11 as stated: on a slow step, on each axis, an edge of the candidate  *)
(* position that is less than snap_distance from the same edge of the     *)
(* active screen ends on that edge, and the coordinate is unchanged when  *)
(* neither edge is.                                                       *)
C11_EveryNearEdgeSnaps ==
    [][(last_event' \in {"move", "flick"} /\ held
        /\ SlowStep(oldPos'.x - oldPos.x, oldPos'.y - oldPos.y)) =>
          LET screen == ActiveScreen(screens, oldPos'.x, oldPos'.y)
              cx == x + (oldPos'.x - oldPos.x)
              cy == y + (oldPos'.y - oldPos.y)
              nearX == Abs(cx - screen.x) < 10
              farX == Abs((screen.x + screen.w) - (cx + width)) < 10
              nearY == Abs(cy - screen.y) < 10
              farY == Abs((screen.y + screen.h) - (cy + height)) < 10
          IN /\ nearX => x' = screen.x
             /\ farX => x' + width = screen.x + screen.w
             /\ (~nearX /\ ~farX) => x' = cx
             /\ nearY => y' = screen.y
             /\ farY => y' + height = screen.y + screen.h
             /\ (~nearY /\ ~farY) => y' = cy]_vars

(* C11 amended: on a slow step, on each axis, the left (top) edge of the  *)
(* candidate position ends on the active screen's left (top) edge when it *)
(* is less than 10 pixels from it; otherwise the right (bottom) edge ends *)
(* on the screen's right (bottom) edge when it is less than 10 pixels     *)
(* from it; otherwise the coordinate is the candidate's.                  *)
C11_NearEdgeFirst ==
    [][(last_event' \in {"move", "flick"} /\ held
        /\ SlowStep(oldPos'.x - oldPos.x, oldPos'.y - oldPos.y)) =>
          LET screen == ActiveScreen(screens, oldPos'.x, oldPos'.y)
              cx == x + (oldPos'.x - oldPos.x)
              cy == y + (oldPos'.y - oldPos.y)
              nearX == Abs(cx - screen.x) < 10
              farX == Abs((screen.x + screen.w) - (cx + width)) < 10
              nearY == Abs(cy - screen.y) < 10
              farY == Abs((screen.y + screen.h) - (cy + height)) < 10
          IN /\ nearX => x' = screen.x
             /\ (~nearX /\ farX) => x' + width = screen.x + screen.w
             /\ (~nearX /\ ~farX) => x' = cx
             /\ nearY => y' = screen.y
             /\ (~nearY /\ farY) => y' + height = screen.y + screen.h
             /\ (~nearY /\ ~farY) => y' = cy]_vars

(* C11 witness: after a move the bottom edge is on the primary screen's *)
(* bottom edge and the left edge on its left edge.                      *)
C11_Witness ==
    /\ last_event = "move"
    /\ x = screens[1].x
    /\ y + height = screens[1].y + screens[1].h
    /\ y # screens[1].y

(* C12: a slow step is idempotent: the snap applied to the position a   *)
(* slow step ended on, with the same screen and size, gives it back.    *)
C12_SnapIdempotent ==
    [][(last_event' \in {"move", "flick"} /\ held
        /\ SlowStep(oldPos'.x - oldPos.x, oldPos'.y - oldPos.y)) =>
          applySnap(x', y', ActiveScreen(screens, oldPos'.x, oldPos'.y),
                    width, height) = [x |-> x', y |-> y']]_vars

(* C13: a step of 5 pixels or more on either axis moves the window by *)
(* exactly the pointer's displacement.                                *)
C13_FastStepUnsnapped ==
    [][(last_event' \in {"move", "flick"} /\ held
        /\ (Abs(oldPos'.x - oldPos.x) >= 5 \/ Abs(oldPos'.y - oldPos.y) >= 5)) =>
          /\ x' = x + (oldPos'.x - oldPos.x)
          /\ y' = y + (oldPos'.y - oldPos.y)]_vars

(* C13 witness: after a fast step the top edge is less than 10 pixels *)
(* from the primary screen's top edge and not on it.                  *)
C13_Witness ==
    /\ last_event = "flick"
    /\ oldPos.x < ScreenW
    /\ y # screens[1].y
    /\ Abs(y - screens[1].y) < 10
    /\ Abs((screens[1].y + screens[1].h) - (y + height)) >= 10

----------------------------------------------------------------------------
(* Properties of the poll *)

(* C1: the provider is contacted only while all three stored credential   *)
(* fields are non-empty (the outstanding request carries exactly them),   *)
(* and a poll made with any field empty is skipped: it returns streak 0   *)
(* with the default template, whatever handler made it.                   *)
C1_CredentialGating ==
    /\ \A i \in 1..Len(requests) :
          /\ requests[i] = <<osu_client_id, osu_client_secret, osu_username>>
          /\ \A j \in 1..3 : requests[i][j] # ""
    /\ (sample.kind # "none" /\ ~sample.complete) =>
          /\ sample.kind = "gated"
          /\ sample.ret = 0
          /\ ~use_alternative_template

(* C1 witness: a poll was skipped with only the client id empty. *)
C1_Witness ==
    /\ sample.kind = "gated"
    /\ osu_client_id = "" /\ osu_client_secret # "" /\ osu_username # ""
    /\ handler.name = "idle"
    /\ requests = <<>>

(* C2: every failure of the provider call ends get_daily_streak with the *)
(* value 0 and the default template, whatever the template was before.   *)
C2_FailureDegrades ==
    sample.kind = "error" =>
        /\ sample.ret = 0
        /\ ~use_alternative_template
        /\ webView.daily_streak = 0

(* C2 witness: the call failed while the alternative template was set. *)
C2_Witness ==
    /\ sample.kind = "error"
    /\ sample.prior
    /\ handler.name = "idle"

(* C3: after a successful poll the alternative template is selected if and *)
(* only if the streak equals the whole days elapsed since the reference    *)
(* instant at the clock reading of the poll.                               *)
C3_PresentationSelection ==
    sample.kind = "ok" =>
        (use_alternative_template <=>
            /\ sample.ret * TicksPerDay <= sample.at
            /\ sample.at < (sample.ret + 1) * TicksPerDay)

(* C3 witness: a poll at 2024-07-25T00:00:00Z returned streak 1. *)
C3_Witness ==
    /\ sample.kind = "ok"
    /\ sample.at = TicksPerDay
    /\ sample.ret = 1
    /\ use_alternative_template

(* C4: a credential update contacts the provider only if all three *)
(* submitted fields are non-empty.                                 *)
C4_UpdateGating ==
    (handler.name = "update_osu_settings" /\ requests # <<>>) =>
        (handler.cid # "" /\ handler.cs # "" /\ handler.un # "")

C6_HandlerDoesNotWait ==
    requests # <<>> => handler.name = "idle"

(* C6 amended: the poll is synchronous.  While the provider call is      *)
(* outstanding the handler that made it is on the stack waiting for the  *)
(* answer, no pending event is taken from the queue and no other handler *)
(* starts: the result is applied by the handler that started the poll.   *)
C6_PollIsInline ==
    [][requests # <<>> =>
          /\ handler.name # "idle"
          /\ Len(pending') >= Len(pending)
          /\ SubSeq(pending', 1, Len(pending)) = pending
          /\ handler'.name \in {handler.name, "idle"}
          /\ sample.kind = "pending"]_vars

(* C6 witness: an input event waits in the queue while the handler of *)
(* the timer is blocked in the provider call.                         *)
C6_Witness ==
    /\ requests # <<>>
    /\ handler.name = "update_streak"
    /\ pending # <<>>
    /\ Head(pending).kind = "F5"

----------------------------------------------------------------------------
(* Properties of the scale and the size *)

(* C7: the scale in memory is an integer from 100 to 500, and so is the *)
(* scale in every settings file the program has written, whatever scale *)
(* entries the files it loaded held and whatever was submitted in the   *)
(* scale field.                                                         *)
C7_ScaleInRange ==
    /\ scale \in MinScale..MaxScale
    /\ webView.zoom \in MinScale..MaxScale
    /\ settings_file.saved =>
           /\ settings_file.scale.t = "int"
           /\ settings_file.scale.n \in MinScale..MaxScale

(* C7 witness: the program runs on a file whose scale entry is above 500 *)
(* and holds the default scale.                                          *)
C7_Witness ==
    /\ running
    /\ ~settings_file.saved
    /\ settings_file.scale = JInt(MaxScale + 1)
    /\ scale = DefaultScale

(* C8: after an integer v was submitted in the scale field the scale is *)
(* min(500, max(100, v)); after another text was submitted the scale is *)
(* what it was before.                                                  *)
C8_RequestClamped ==
    /\ submitted.t = "int" =>
           scale = (IF submitted.n < 100 THEN 100
                    ELSE IF submitted.n > 500 THEN 500
                    ELSE submitted.n)
    /\ submitted.t = "other" => scale = submitted.before

(* C8 witness: 501 was submitted and the scale is 500. *)
C8_Witness ==
    /\ running
    /\ submitted.t = "int"
    /\ submitted.n = MaxScale + 1
    /\ scale = MaxScale

(* The scales at which the double-precision product for the width falls *)
(* just below the whole number base_width * s / 100.                    *)
WidthOneBelow == {114, 138, 164, 226, 228, 276, 278, 326, 328, 402, 406, 452, 456}

(* The size int(base * (s / 100)) yields: base * s / 100 rounded down, *)
(* and one less for the width at the scales above.                     *)
ExpectedSize(s) ==
    <<(base_width * s) \div 100 - (IF s \in WidthOneBelow THEN 1 ELSE 0),
      (base_height * s) \div 100>>

(* The size the window has or is being animated to. *)
TargetSize == IF animation.running THEN <<animation.w, animation.h>>
              ELSE <<width, height>>

(* C9 as stated: the size used at startup and on a scale change is *)
(* base * scale / 100 rounded to the nearest integer.              *)
C9_RoundsToNearest ==
    running =>
        /\ 2 * (100 * TargetSize[1] - base_width * scale) \in (0 - 100)..100
        /\ 2 * (100 * TargetSize[2] - base_height * scale) \in (0 - 100)..100

(* C9 amended: the size used at startup and on a scale change is         *)
(* base * scale / 100 rounded down, except that the width is one less    *)
(* than the exact value 1.5 * scale at thirteen even scales (170 instead *)
(* of 171 at 114); the size at scale 100 is (150, 57) and both           *)
(* dimensions are non-decreasing in the scale over 100..500.             *)
C9_TruncatedSize ==
    /\ \A s \in MinScale..MaxScale : computeSize(s) = ExpectedSize(s)
    /\ \A s \in MinScale..(MaxScale - 1) :
           /\ computeSize(s)[1] <= computeSize(s + 1)[1]
           /\ computeSize(s)[2] <= computeSize(s + 1)[2]
    /\ computeSize(100) = <<150, 57>>
    /\ running =>
           /\ TargetSize = ExpectedSize(scale)
           /\ <<webView.w, webView.h>> = ExpectedSize(scale)

(* C9 witness: the scale was changed to 114 and the width is 170. *)
C9_Witness ==
    /\ running
    /\ submitted.t = "int"
    /\ scale = 114
    /\ TargetSize[1] = 170
    /\ 100 * TargetSize[1] < base_width * scale - 50

----------------------------------------------------------------------------
(* Saving under storage failures *)

(* The file system's condition changes. *)
StorageChange(cond) ==
    /\ storage' = cond
    /\ UNCHANGED <<osu_client_id, osu_client_secret, osu_username,
                   use_alternative_template, always_on_top, scale, x, y, width,
                   height, animation, animations, webView, settings_file, running,
                   screens, update_timer, submitted, last_event, pointerVars,
                   pollVars>>

(* The program not yet started, with the default settings file. *)
InitStorage ==
    /\ NotStarted
    /\ screens = <<Screen(0, 0)>>
    /\ storage = "ok"
    /\ settings_file = DefaultFile

NextStorage ==
    \/ \E cond \in StorageConditions : StorageChange(cond)
    \/ Launch
    \/ \E key \in ArrowKeys : keyPressEvent(key)
    \/ toggle_always_on_top
    \/ closeApp

SpecStorage == InitStorage /\ [][NextStorage]_vars

----------------------------------------------------------------------------
(* The actions that change the settings, together *)

(* Pointer positions of a drag along the left edge of the screen, a fast *)
(* step apart.                                                           *)
PersistPointers == {<<0, 0>>, <<0, 2 * PointerStep>>}

(* The widget once __init__ has run on a settings file that holds the   *)
(* client id and secret, no username, and the primary screen's top-left *)
(* corner as the position.                                              *)
InitPersist ==
    /\ screens = <<Screen(0, 0)>>
    /\ storage = "ok"
    /\ update_timer = StartedTimer
    /\ settings_file = [DefaultFile EXCEPT
                            !.osu_client_id = "p",
                            !.osu_client_secret = "p",
                            !.position = [t |-> "dict", x |-> JInt(0), y |-> JInt(0)]]
    /\ LET made == Constructed(settings_file, screens)
       IN /\ always_on_top = made.always_on_top
          /\ scale = made.scale
          /\ x = made.x
          /\ y = made.y
          /\ width = made.width
          /\ height = made.height
          /\ webView = made.webView
          /\ osu_client_id = made.osu_client_id
          /\ osu_client_secret = made.osu_client_secret
          /\ osu_username = made.osu_username
          /\ use_alternative_template = made.use_alternative_template
    /\ animation = NoAnimation
    /\ animations = <<>>
    /\ running = TRUE
    /\ submitted = NoSubmission
    /\ oldPos = [x |-> x, y |-> y]
    /\ held = FALSE
    /\ last_event = "none"
    /\ ended = "none"
    /\ pending = <<[kind |-> "singleShot", during |-> FALSE]>>
    /\ handler = Idle
    /\ requests = <<>>
    /\ sample = NoSample

(* The menu's events are posted one at a time, while the loop is idle; *)
(* the provider answers with a streak.                                 *)
NextPersist ==
    \/ \E kind \in {"returnPressed", "toggle"} :
           pending = <<>> /\ handler = Idle /\ Post(kind)
    \/ HandleUpdateStreak
    \/ \E un \in CredValues : HandleUpdateOsuSettings("p", "p", un)
    \/ HandleToggleTemplate
    \/ \E o \in {q \in Outcomes : q.ok /\ q.streak = MaxStreak} : ProviderReturn(o, 0)
    \/ mousePressEvent(0, 0)
    \/ \E p \in PersistPointers : mouseMoveEvent(p[1], p[2])
    \/ keyPressEvent("Right")
    \/ updateScale([t |-> "int", n |-> MinScale + ScaleMargin])
    \/ onAnimationFinished
    \/ toggle_always_on_top

SpecPersist == InitPersist /\ [][NextPersist]_vars

----------------------------------------------------------------------------
(* Nudging, dragging and leaving *)

(* The program not yet started, with the default settings file. *)
InitExit ==
    /\ NotStarted
    /\ screens = <<Screen(0, 0)>>
    /\ storage = "ok"
    /\ settings_file = DefaultFile

NextExit ==
    \/ Launch
    \/ mousePressEvent(0, 0)
    \/ \E p \in PersistPointers : mouseMoveEvent(p[1], p[2])
    \/ \E key \in ArrowKeys : keyPressEvent(key)
    \/ closeApp

SpecExit == InitExit /\ [][NextExit]_vars

(* C14: scale transitions are canceled, never queued.  At most one       *)
(* animation runs, it is the one self.animation holds, and its end size   *)
(* is that of the scale requested last; when an animation has finished    *)
(* none runs and the window's size is that of the scale requested last.   *)
C14_CanceledNotQueued ==
    /\ Len(animations) <= 1
    /\ animations = (IF animation.running THEN <<animation>> ELSE <<>>)
    /\ animation.running => <<animation.w, animation.h>> = ExpectedSize(scale)
    /\ last_event = "finished" =>
           /\ animations = <<>>
           /\ <<width, height>> = ExpectedSize(scale)
    /\ submitted.t = "int" =>
           scale = (IF submitted.n < 100 THEN 100
                    ELSE IF submitted.n > 500 THEN 500
                    ELSE submitted.n)

(* C14 witness: a second scale was requested while the animation of the *)
(* first ran, an animation has finished, and the size is that of the    *)
(* second scale.                                                        *)
C14_Witness ==
    /\ last_event = "finished"
    /\ submitted.t = "int"
    /\ submitted.during
    /\ submitted.before # scale
    /\ scale = 114
    /\ <<width, height>> = <<170, 64>>

(* C15: when an animation finishes the window's top-left corner is where *)
(* it was when the scale was requested.                                  *)
C15_TopLeftAnchored ==
    [][last_event' = "finished" =>
          /\ x' = submitted.x
          /\ y' = submitted.y
          /\ submitted' = submitted]_vars

(* C15 witness: the window was nudged away from its start position, then *)
(* a scale was requested during an animation; the animation has finished *)
(* with another size and the corner is where it was at the request.      *)
C15_Witness ==
    /\ last_event = "finished"
    /\ submitted.during
    /\ submitted.t = "int"
    /\ <<width, height>> # <<base_width, base_height>>
    /\ <<x, y>> = <<submitted.x, submitted.y>>
    /\ <<x, y>> # <<oldPos.x, oldPos.y>>

(* The state a scale transition ends in: no animation, the fixed size *)
(* that of the scale, the settings file holding the scale and the     *)
(* window's position.                                                 *)
TransitionCommitted ==
    /\ ~animation.running
    /\ animations = <<>>
    /\ <<width, height>> = computeSize(scale)
    /\ settings_file.saved
    /\ settings_file.scale = JInt(scale)
    /\ settings_file.position = [t |-> "dict", x |-> JInt(x), y |-> JInt(y)]

(* C16: a scale request that started an animation is eventually followed *)
(* by the idle state with the size of the scale and the settings file    *)
(* holding the scale and the position.                                   *)
C16_TransitionCompletes == animation.running ~> TransitionCommitted

(* C16 witness: an animation has finished after a request for a scale *)
(* other than the one before it, and the transition is committed.     *)
C16_Witness ==
    /\ last_event = "finished"
    /\ submitted.t = "int"
    /\ scale # DefaultScale
    /\ TransitionCommitted

(* The settings file holds what save_settings would write now. *)
Persisted == settings_file = Snapshot(Cur, CurGeo)

C19_FieldwiseLoad ==
    (/\ running
     /\ ~settings_file.saved
     /\ settings_file.kind = "object"
     /\ settings_file.scale.t = "int"
     /\ settings_file.scale.n \in MinScale..MaxScale)
        => scale = settings_file.scale.n

(* C20: the process never ends on an error, and an exit is preceded by *)
(* a save.                                                             *)
C20_NoFatalError ==
    /\ ended # "error"
    /\ ended = "exit" => settings_file.saved

(* C21: when the process ends on an exit request the settings file holds *)
(* the settings the widget had at the request, the window's position     *)
(* included.                                                             *)
C21_ExitSaves ==
    [][(running /\ ended' = "exit") =>
          /\ settings_file' = Snapshot(Cur, CurGeo)
          /\ ~running'
          /\ webView'.daily_streak = 0]_vars

(* C21 witness: the process has ended on an exit request and the file *)
(* holds the position a fast drag step had left unsaved.              *)
C21_Witness ==
    /\ ended = "exit"
    /\ ~running
    /\ settings_file.saved
    /\ settings_file.position.y = JInt(1 + 2 * PointerStep)

C18_AtomicSave ==
    [][settings_file' # settings_file =>
          /\ settings_file'.kind = "object"
          /\ settings_file'.saved]_vars

----------------------------------------------------------------------------
(* Properties of the start position *)

(* The file holds a position load_settings accepts. *)
HasPersistedPosition ==
    /\ settings_file.kind = "object"
    /\ settings_file.position.t = "dict"
    /\ PyInt(settings_file.position.x).ok
    /\ PyInt(settings_file.position.y).ok

PersistedX == PyInt(settings_file.position.x).n
PersistedY == PyInt(settings_file.position.y).n

(* The pixel (px, py) belongs to the screen. *)
PixelOn(px, py, screen) ==
    /\ px \in screen.x..(screen.x + screen.w - 1)
    /\ py \in screen.y..(screen.y + screen.h - 1)

(* The window's footprint at the persisted position lies within one screen. *)
PersistedContained ==
    \E i \in 1..Len(screens) :
        /\ PixelOn(PersistedX, PersistedY, screens[i])
        /\ PixelOn(PersistedX + width - 1, PersistedY + height - 1, screens[i])

(* The window's centre is the centre of the primary screen, to the pixel. *)
CenteredOnPrimary ==
    /\ (2 * x + width) - (2 * screens[1].x + screens[1].w) \in (0 - 2)..0
    /\ (2 * y + height) - (2 * screens[1].y + screens[1].h) \in (0 - 2)..0

(* C10: started on a file that holds a position, the window is at that   *)
(* position if the footprint at the loaded scale lies within one screen, *)
(* and is centred on the primary screen otherwise.                       *)
C10_StartPosition ==
    (running /\ HasPersistedPosition) =>
        IF PersistedContained
        THEN x = PersistedX /\ y = PersistedY
        ELSE CenteredOnPrimary /\ ~(x = PersistedX /\ y = PersistedY)

(* C10 witness: the persisted top-left corner is on the second screen but *)
(* the footprint is not within it, and the window is centred on the       *)
(* primary screen.                                                        *)
C10_Witness ==
    /\ running
    /\ HasPersistedPosition
    /\ Len(screens) = 2
    /\ PixelOn(PersistedX, PersistedY, screens[2])
    /\ ~PersistedContained
    /\ CenteredOnPrimary

----------------------------------------------------------------------------
(* A session: start, polls, exit, start again *)

(* The settings file left by an earlier run: any credentials, either *)
(* template flag.                                                    *)
InitSession ==
    /\ NotStarted
    /\ screens = <<Screen(0, 0)>>
    /\ storage = "ok"
    /\ \E id \in CredValues, un \in CredValues, alt \in BOOLEAN :
          settings_file = [DefaultFile EXCEPT !.osu_client_id = id,
                                              !.osu_client_secret = "p",
                                              !.osu_username = un,
                                              !.use_alternative_template = alt]

NextSession ==
    \/ Launch
    \/ TimerTick
    \/ \E kind \in {"F5", "manual", "toggle"} : running /\ Post(kind)
    \/ running /\ HandleUpdateStreak
    \/ running /\ HandleToggleTemplate
    \/ \E o \in Outcomes, now \in Times : running /\ ProviderReturn(o, now)
    \/ closeApp

SpecSession == InitSession /\ [][NextSession]_vars

(* C23, as stated: whatever the settings file holds, the start shows the *)
(* default template with streak 0 and leaves the initial poll posted,    *)
(* not yet performed.                                                    *)
C23_StartsWithDefault ==
    [][(~running /\ running') =>
          /\ webView'.template = FALSE
          /\ webView'.daily_streak = 0
          /\ pending' = <<[kind |-> "singleShot", during |-> FALSE]>>
          /\ sample' = NoSample
          /\ requests' = <<>>]_vars

(* C23: the start shows the template that the loaded use_alternative_template *)
(* selects (the default one when the flag is false or the file is unusable),  *)
(* with streak 0, and leaves the initial poll posted for a later turn of the  *)
(* event loop: no get_daily_streak call has been made and no request sent.    *)
C23_StartsWithStoredTemplate ==
    [][(~running /\ running') =>
          /\ webView'.template = load_settings(settings_file).use_alternative_template
          /\ webView'.daily_streak = 0
          /\ pending' = <<[kind |-> "singleShot", during |-> FALSE]>>
          /\ handler' = Idle
          /\ sample' = NoSample
          /\ requests' = <<>>]_vars

(* A widget just started on a file whose flag is set: the alternative *)
(* template with streak 0, the initial poll waiting.                  *)
C23_Witness ==
    /\ running
    /\ webView.template
    /\ webView.daily_streak = 0
    /\ sample = NoSample
    /\ Len(pending) = 1
    /\ pending[1].kind = "singleShot"

(* The timeouts of the update timer waiting in the event queue. *)
TimeoutsWaiting(q) == Cardinality({i \in 1..Len(q) : q[i].kind = "timeout"})

(* The step in which the event loop of the running widget hands an F5 *)
(* or Manual Update event to update_streak.                           *)
ManualHandled ==
    /\ running /\ running'
    /\ handler.name = "idle"
    /\ pending # <<>>
    /\ Head(pending).kind \in {"F5", "manual"}
    /\ pending' = Tail(pending)

(* C24: an F5 or Manual Update event is handled whatever the state is: its *)
(* handler calls get_daily_streak (request skipped or sent).  That step,   *)
(* and the step in which a blocked update_streak returns, leave the update *)
(* timer as it is (running, interval 300000, the same point of its period) *)
(* and leave the timeouts waiting in the queue; while the widget runs the  *)
(* timer runs, and the end of each period puts exactly one timeout in the  *)
(* queue.                                                                  *)
C24_ManualLeavesTimer ==
    [][/\ ManualHandled =>
             /\ sample'.kind \in {"gated", "pending"}
             /\ sample'.kind = "pending" <=> handler'.name = "update_streak"
             /\ update_timer' = update_timer
             /\ TimeoutsWaiting(pending') = TimeoutsWaiting(pending)
       /\ (handler.name = "update_streak" /\ handler'.name = "idle") =>
             /\ update_timer' = update_timer
             /\ pending' = pending
       /\ running' => update_timer' \in [active : {TRUE}, interval : {300000},
                                         elapsed : 0..(TimerTicks - 1)]
       /\ (running /\ running' /\ update_timer.elapsed = TimerTicks - 1
             /\ update_timer'.elapsed = 0) =>
             TimeoutsWaiting(pending') = TimeoutsWaiting(pending) + 1]_vars

(* A manual poll that went to the provider has returned in the middle of *)
(* a period of the timer; the timeout emitted while it was outstanding   *)
(* is still waiting.                                                     *)
C24_Witness ==
    /\ last_event \in {"F5", "manual"}
    /\ handler.name = "idle"
    /\ sample.kind = "ok"
    /\ update_timer.elapsed = 1
    /\ TimeoutsWaiting(pending) = 1
    /\ pending[1].during

----------------------------------------------------------------------------
(* Saving and loading again *)

(* Settings files an earlier run has saved: positions on the screen, the *)
(* smallest, a middle and the largest scale (at the largest the window   *)
(* fits no screen and is centred, partly off the screen), either flag,   *)
(* any credentials.                                                      *)
InitReload ==
    /\ NotStarted
    /\ screens = <<Screen(0, 0)>>
    /\ storage = "ok"
    /\ \E px \in {0, 2 * arrow_step}, py \in {0, arrow_step},
          sc \in {MinScale, MinScale + ScaleMargin, MaxScale},
          alt \in BOOLEAN, top \in BOOLEAN,
          id \in CredValues, secret \in CredValues, un \in CredValues :
          settings_file =
              [DefaultFile EXCEPT !.position = [t |-> "dict", x |-> JInt(px),
                                                y |-> JInt(py)],
                                  !.scale = JInt(sc),
                                  !.use_alternative_template = alt,
                                  !.always_on_top = top,
                                  !.osu_client_id = id,
                                  !.osu_client_secret = secret,
                                  !.osu_username = un]

NextReload ==
    \/ Launch
    \/ \E key \in ArrowKeys : keyPressEvent(key)
    \/ toggle_always_on_top
    \/ closeApp

SpecReload == InitReload /\ [][NextReload]_vars

(* What load_settings returns agrees with the widget's memory on the   *)
(* position, the scale, both flags and the three credentials.          *)
LoadsAsHeld(l) ==
    /\ l.is_dict
    /\ ~l.empty
    /\ l.has_position
    /\ l.x = x
    /\ l.y = y
    /\ l.has_scale
    /\ l.scale = scale
    /\ l.use_alternative_template = use_alternative_template
    /\ l.always_on_top = always_on_top
    /\ l.osu_client_id = osu_client_id
    /\ l.osu_client_secret = osu_client_secret
    /\ l.osu_username = osu_username

(* C25: in every state of the running widget, the file save_settings      *)
(* writes is loaded by load_settings as the values the widget holds; and  *)
(* after a handler that saved, the settings file on disk is loaded as the *)
(* values the widget holds, with no field replaced by a default.          *)
C25_RoundTrip ==
    running =>
        /\ LoadsAsHeld(load_settings(save_settings(Cur).file))
        /\ last_event \in ArrowKeys \cup {"toggle_always_on_top"} =>
               /\ settings_file.saved
               /\ LoadsAsHeld(load_settings(settings_file))

(* A widget of scale 101 holding credentials and the alternative flag, *)
(* not on top, moved off the screen's top-left corner by arrow keys,   *)
(* has saved.                                                          *)
C25_Witness ==
    /\ running
    /\ last_event \in ArrowKeys
    /\ settings_file.saved
    /\ scale = MinScale + ScaleMargin
    /\ x < 0
    /\ y < 0
    /\ use_alternative_template
    /\ ~always_on_top
    /\ osu_username = "p"

----------------------------------------------------------------------------
(* The template flag under toggles and polls *)

(* The step in which toggle_template returns: at once when the request is *)
(* skipped, else when the provider has answered.                          *)
ToggleCompleted ==
    /\ running /\ running'
    /\ handler'.name = "idle"
    /\ \/ handler.name = "toggle_template"
       \/ /\ handler.name = "idle"
          /\ pending # <<>>
          /\ Head(pending).kind = "toggle"
          /\ pending' = Tail(pending)

(* The flag before the toggle whose get_daily_streak call is the latest: *)
(* the call was made with the flipped flag.                              *)
FlagBeforeToggle == ~sample'.prior

PollStep ==
    /\ running /\ running'
    /\ \/ /\ handler.name = "idle"
          /\ pending # <<>>
          /\ Head(pending).kind \in PollKinds
          /\ pending' = Tail(pending)
       \/ /\ handler.name = "update_streak"
          /\ handler'.name = "idle"

(* C27: a step of a poll, whatever its outcome, leaves every value that *)
(* save_settings writes as it was: the position, the scale, the         *)
(* template flag, always-on-top and the three credentials.              *)
C27_PollKeepsSettings ==
    [][PollStep =>
          /\ x' = x
          /\ y' = y
          /\ scale' = scale
          /\ use_alternative_template' = use_alternative_template
          /\ always_on_top' = always_on_top
          /\ osu_client_id' = osu_client_id
          /\ osu_client_secret' = osu_client_secret
          /\ osu_username' = osu_username]_vars

(* C28: one run of update_osu_settings sends at most one request to the *)
(* provider (once the provider has answered, the handler returns        *)
(* without sending another), and a request it sends carries the three   *)
(* submitted texts.                                                     *)
C28_OneCallFinalValues ==
    [][/\ (handler.name = "update_osu_settings" /\ requests' # requests) =>
             handler'.name = "idle"
       /\ (handler'.name = "update_osu_settings" /\ requests' # requests) =>
             requests'[Len(requests')] = <<handler'.cid, handler'.cs, handler'.un>>]_vars

====
